---- MODULE Spec2Model ----
(***************************************************************************)
(* CodeVengers: the xorshift32 stepper and sequence generator of           *)
(* solution-script.js, the solveChallenge script around them (Script A)    *)
(* and TestCode/test.js's main (Script B).                                 *)
(*                                                                         *)
(* JavaScript values are records tagged by their type (field t); a 32-bit  *)
(* word is the integer it denotes in two's complement, -2^31 .. 2^31 - 1.  *)
(* The Number values of the model are the integers of that range.          *)
(***************************************************************************)
EXTENDS Integers, Sequences, FiniteSets, TLC

VARIABLES
  \* generateSequence's frame
  gpc, initialSeed, count, i, currentSeed, sequence,
  \* solveChallenge's frame (Script A)
  pc, response, data, submitData, submitResponse, responseText, console,
  getCount, postCount, postBody,
  \* main's frame (Script B)
  bpc, bdata, bodyUsed, bparsed, bconsole, bgetCount, bpostCount, bpostBody,
  brejection

genVars == <<gpc, initialSeed, count, i, currentSeed, sequence>>
aVars == <<pc, response, data, submitData, submitResponse, responseText,
           console, getCount, postCount, postBody>>
bVars == <<bpc, bdata, bodyUsed, bparsed, bconsole, bgetCount, bpostCount,
           bpostBody, brejection>>
vars == <<genVars, aVars, bVars>>

-----------------------------------------------------------------------------
(* Bounds of the model *)

\* largest count the stand-alone generator runs are started with
MaxCount == 8

-----------------------------------------------------------------------------
(* 32-bit words *)

WordBits == 32
Shift1 == 13
Shift2 == 17
Shift3 == 5
SequenceLength == 128

MinInt32 == (0 - 1073741824) - 1073741824
MaxInt32 == 1073741823 + 1073741824

\* bit j of the two's-complement word x
Bit(x, j) ==
  IF j = WordBits - 1 THEN (IF x < 0 THEN 1 ELSE 0) ELSE (x \div 2^j) % 2

RECURSIVE SumBits(_, _)
SumBits(f, j) == IF j < 0 THEN 0 ELSE f[j] * 2^j + SumBits(f, j - 1)

\* the signed integer a 32-bit pattern denotes (the pattern's value is taken
\* through a singleton set, see below)
FromBits(f) ==
  CHOOSE r \in {IF g[WordBits - 1] = 1
                  THEN (SumBits(g, WordBits - 2) - 2^(WordBits - 2))
                         - 2^(WordBits - 2)
                  ELSE SumBits(g, WordBits - 2) : g \in {f}} : TRUE

BitIdx == 0 .. (WordBits - 1)

\* JavaScript's a ^ b, a | b, a << k and a >> k on int32 operands. Each takes
\* its operands' values through a singleton set, so that an operand that is
\* itself a long expression is evaluated once and not once per bit.
BitwiseXor(a, b) ==
  CHOOSE r \in {FromBits([j \in BitIdx |-> (Bit(x, j) + Bit(y, j)) % 2]) :
                  x \in {a}, y \in {b}} : TRUE

BitwiseOr(a, b) ==
  CHOOSE r \in {FromBits([j \in BitIdx |->
                            IF Bit(x, j) + Bit(y, j) > 0 THEN 1 ELSE 0]) :
                  x \in {a}, y \in {b}} : TRUE

LeftShift(a, k) ==
  CHOOSE r \in {FromBits([j \in BitIdx |->
                            IF j < k THEN 0 ELSE Bit(x, j - k)]) :
                  x \in {a}} : TRUE

\* a >>> k taken for a >> k: the vacated bits are zero-filled
UnsignedRightShift(a, k) ==
  CHOOSE r \in {FromBits([j \in BitIdx |->
                            IF j + k > WordBits - 1 THEN 0 ELSE Bit(x, j + k)]) :
                  x \in {a}} : TRUE

SignedRightShift(a, k) ==
  CHOOSE r \in {FromBits([j \in BitIdx |->
                            IF j + k > WordBits - 1 THEN Bit(x, WordBits - 1)
                            ELSE Bit(x, j + k)]) :
                  x \in {a}} : TRUE

-----------------------------------------------------------------------------
(* JavaScript values *)

Undefined == [t |-> "undefined"]
Null == [t |-> "null"]
Num(n) == [t |-> "number", n |-> n]
Str(s) == [t |-> "string", s |-> s]

\* StringToNumber on the strings of the model: NaN unless the string is a
\* numeric literal
NumericStrings == [s \in {"7", "-3"} |-> IF s = "7" THEN 7 ELSE 0 - 3]

\* ToInt32: NaN (from undefined or a non-numeric string) and null give 0
ToInt32(v) ==
  CASE v.t = "number" -> v.n
    [] v.t = "string" ->
         IF v.s \in DOMAIN NumericStrings THEN NumericStrings[v.s] ELSE 0
    [] OTHER -> 0

\* v | 1 typed for v | 0
OrOne(v) == BitwiseOr(ToInt32(v), 1)

\* v | 0
OrZero(v) == BitwiseOr(ToInt32(v), 0)

-----------------------------------------------------------------------------
(* xorshift32 *)

xorshift32(seed) ==
  LET s0 == OrZero(seed)
      s1 == BitwiseXor(s0, BitwiseOr(LeftShift(s0, Shift1), 0))
      s2 == BitwiseXor(s1, BitwiseOr(SignedRightShift(s1, Shift2), 0))
      s3 == BitwiseXor(s2, BitwiseOr(LeftShift(s2, Shift3), 0))
  IN BitwiseOr(s3, 0)

-----------------------------------------------------------------------------
(* generateSequence: one action per loop iteration, one for the return *)

\* the loop running one iteration too many
LoopConditionInclusive == i <= count

LoopCondition == i < count

\* the seed pushed before it is stepped
GenStepPushFirst ==
  /\ gpc = "loop"
  /\ LoopCondition
  /\ sequence' = Append(sequence, OrZero(currentSeed))
  /\ currentSeed' = Num(xorshift32(currentSeed))
  /\ i' = i + 1
  /\ UNCHANGED <<gpc, initialSeed, count, aVars, bVars>>

GenStep ==
  /\ gpc = "loop"
  /\ LoopCondition
  /\ LET next == xorshift32(currentSeed)
     IN /\ currentSeed' = Num(next)
        /\ sequence' = Append(sequence, next)
  /\ i' = i + 1
  /\ UNCHANGED <<gpc, initialSeed, count, aVars, bVars>>

GenReturn ==
  /\ gpc = "loop"
  /\ ~LoopCondition
  /\ gpc' = "returned"
  /\ UNCHANGED <<initialSeed, count, i, currentSeed, sequence, aVars, bVars>>

\* generateSequence(seed, n) is entered
GenCall(seed, n) ==
  /\ gpc' = "loop"
  /\ initialSeed' = seed
  /\ count' = n
  /\ i' = 0
  /\ currentSeed' = seed
  /\ sequence' = <<>>

-----------------------------------------------------------------------------
(* Values on the wire and on the console *)

\* a field a record does not carry
Nothing == [t |-> "nothing"]

\* a response body that is no JSON text
RawText(s) == [t |-> "text", s |-> s]

\* a JSON object with the given uid and initialSeed members; Undefined
\* stands for a member the object lacks
MkObject(u, s) ==
  [t |-> "object",
   props |-> [k \in ((IF u = Undefined THEN {} ELSE {"uid"}) \cup
                     (IF s = Undefined THEN {} ELSE {"initialSeed"}))
                |-> IF k = "uid" THEN u ELSE s]]

\* o.k: a missing member reads as undefined
Prop(o, k) ==
  IF o.t = "object" /\ k \in DOMAIN o.props THEN o.props[k] ELSE Undefined

\* whether o.k throws a TypeError
PropThrows(o) == o.t \in {"null", "undefined"}

\* whether JSON.parse / response.json() accepts the body
Parsable(b) == b.t # "text"

\* JSON.stringify of an object: members whose value is undefined are left out
JSONstringify(o) ==
  [t |-> "object",
   props |-> [k \in {m \in DOMAIN o.props : o.props[m] # Undefined}
                |-> o.props[k]]]

Array(items) == [t |-> "array", items |-> items]

\* response.ok
Ok(status) == status >= 200 /\ status <= 299

Statuses == {200, 404, 500}

UidValues == {Undefined, Str("u1"), Num(7)}

SeedValues == {Undefined, Str("abc"), Num(0), Num(0 - 1)}

GetBodies ==
  {RawText("<html>"), Null} \cup
  {MkObject(u, s) : u \in UidValues, s \in SeedValues}

PostBodies == {RawText("Wrong sequence"), MkObject(Str("flag"), Undefined)}

\* thrown values
NetworkError == [t |-> "error", name |-> "TypeError", message |-> "fetch failed",
                 status |-> Nothing]
\* the status left out of the thrown Error's message
HttpErrorNoStatus(status) == [t |-> "error", name |-> "Error",
                              message |-> "HTTP error!", status |-> Nothing]

HttpError(status) == [t |-> "error", name |-> "Error",
                      message |-> "HTTP error! Status:", status |-> Num(status)]
SyntaxError == [t |-> "error", name |-> "SyntaxError",
                message |-> "Unexpected token", status |-> Nothing]
BodyReadError == [t |-> "error", name |-> "TypeError", message |-> "terminated",
                  status |-> Nothing]
PropTypeError == [t |-> "error", name |-> "TypeError",
                  message |-> "Cannot read properties", status |-> Nothing]

\* a console call that interpolates nothing
NoArgs == [k \in {} |-> Nothing]

\* a console call: its level, its fixed text and the values it interpolates
LogEntry(level, text, args) == [level |-> level, text |-> text, args |-> args]

-----------------------------------------------------------------------------
(* Script A: solveChallenge *)

\* a catch block that runs the script once more after the first failure
CatchRetryOnce(error) ==
  /\ console' = Append(console, LogEntry("error", "Error:", [error |-> error]))
  /\ pc' = IF getCount < 2 THEN "start" ELSE "done"

\* the catch block of solveChallenge
Catch(error) ==
  /\ console' = Append(console, LogEntry("error", "Error:", [error |-> error]))
  /\ pc' = "done"

A_Start ==
  /\ pc = "start"
  /\ console' = Append(console, LogEntry("log", "Fetching initial data...", NoArgs))
  /\ getCount' = getCount + 1
  /\ pc' = "awaitGet"
  /\ UNCHANGED <<response, data, submitData, submitResponse, responseText,
                 postCount, postBody, genVars, bVars>>

\* fetch(apiUrl) rejects
A_GetRejected ==
  /\ pc = "awaitGet"
  /\ Catch(NetworkError)
  /\ UNCHANGED <<response, data, submitData, submitResponse, responseText,
                 getCount, postCount, postBody, genVars, bVars>>

\* the response taken as it comes, response.ok not looked at
A_GetResponseNoOkCheck ==
  /\ pc = "awaitGet"
  /\ \E status \in Statuses, body \in GetBodies :
       response' = [status |-> status, body |-> body]
  /\ pc' = "awaitJson"
  /\ UNCHANGED <<data, submitData, submitResponse, responseText, console,
                 getCount, postCount, postBody, genVars, bVars>>

\* fetch(apiUrl) resolves: the ok check, then response.json() is called
A_GetResponse ==
  /\ pc = "awaitGet"
  /\ \E status \in Statuses, body \in GetBodies :
       /\ response' = [status |-> status, body |-> body]
       /\ IF ~Ok(status)
            THEN Catch(HttpError(status))
            ELSE pc' = "awaitJson" /\ UNCHANGED console
  /\ UNCHANGED <<data, submitData, submitResponse, responseText,
                 getCount, postCount, postBody, genVars, bVars>>

\* response.json() rejects: the body is no JSON, or reading it failed
A_JsonRejected ==
  /\ pc = "awaitJson"
  /\ \E error \in {SyntaxError, BodyReadError} :
       /\ error = SyntaxError => ~Parsable(response.body)
       /\ Catch(error)
  /\ UNCHANGED <<response, data, submitData, submitResponse, responseText,
                 getCount, postCount, postBody, genVars, bVars>>

\* response.json() resolves: the Received log, then generateSequence is entered
A_JsonParsed ==
  /\ pc = "awaitJson"
  /\ Parsable(response.body)
  /\ data' = response.body
  /\ IF PropThrows(data')
       THEN Catch(PropTypeError) /\ UNCHANGED genVars
       ELSE /\ console' = Append(console,
                 LogEntry("log", "Received:",
                          [uid |-> Prop(data', "uid"),
                           initialSeed |-> Prop(data', "initialSeed")]))
            /\ GenCall(Prop(data', "initialSeed"), SequenceLength)
            /\ pc' = "generating"
  /\ UNCHANGED <<response, submitData, submitResponse, responseText,
                 getCount, postCount, postBody, bVars>>

\* the slice logged as "First few values" submitted for the sequence
SubmitDataFirstFew(d, seq) ==
  [t |-> "object",
   props |-> [k \in {"uid", "generated"} |->
                IF k = "uid" THEN Prop(d, "uid")
                ELSE Array(SubSeq(seq, 1, 5))]]

\* { uid: data.uid, generated: sequence }
SubmitData(d, seq) ==
  [t |-> "object",
   props |-> [k \in {"uid", "generated"} |->
                IF k = "uid" THEN Prop(d, "uid") ELSE Array(seq)]]

\* generateSequence has returned: the two logs, submitData, the POST
A_Submit ==
  /\ pc = "generating"
  /\ gpc = "returned"
  /\ console' = console \o
       << LogEntry("log", "First few values:",
                   [values |-> SubSeq(sequence, 1, 5)]),
          LogEntry("log", "Submitting results...", NoArgs) >>
  /\ submitData' = SubmitData(data, sequence)
  /\ postBody' = JSONstringify(submitData')
  /\ postCount' = postCount + 1
  /\ gpc' = "idle"
  /\ pc' = "awaitPost"
  /\ UNCHANGED <<response, data, submitResponse, responseText, getCount,
                 initialSeed, count, i, currentSeed, sequence, bVars>>

\* the POST's fetch rejects
A_PostRejected ==
  /\ pc = "awaitPost"
  /\ Catch(NetworkError)
  /\ UNCHANGED <<response, data, submitData, submitResponse, responseText,
                 getCount, postCount, postBody, genVars, bVars>>

\* the POST's fetch resolves: submitResponse.text() is called
A_PostResponse ==
  /\ pc = "awaitPost"
  /\ \E status \in Statuses, body \in PostBodies :
       submitResponse' = [status |-> status, body |-> body]
  /\ pc' = "awaitText"
  /\ UNCHANGED <<response, data, submitData, responseText, console,
                 getCount, postCount, postBody, genVars, bVars>>

\* submitResponse.text() rejects
A_TextRejected ==
  /\ pc = "awaitText"
  /\ Catch(BodyReadError)
  /\ UNCHANGED <<response, data, submitData, submitResponse, responseText,
                 getCount, postCount, postBody, genVars, bVars>>

\* submitResponse.text() resolves: the status log and the result log
A_TextResolved ==
  /\ pc = "awaitText"
  /\ responseText' = submitResponse.body
  /\ console' = console \o
       << LogEntry("log", "Response status:",
                   [status |-> Num(submitResponse.status)]),
          IF Ok(submitResponse.status)
            THEN IF Parsable(responseText')
                   THEN LogEntry("log", "Success!", [result |-> responseText'])
                   ELSE LogEntry("log", "Success! Raw response:",
                                 [body |-> responseText'])
            ELSE LogEntry("error", "Error",
                          [status |-> Num(submitResponse.status),
                           body |-> responseText']) >>
  /\ pc' = "done"
  /\ UNCHANGED <<response, data, submitData, submitResponse,
                 getCount, postCount, postBody, genVars, bVars>>

-----------------------------------------------------------------------------
(* Script B: main of TestCode/test.js *)

\* a JSON object with the given verificationCode member (Undefined: none)
MkCodeObject(c) ==
  [t |-> "object",
   props |-> [k \in (IF c = Undefined THEN {} ELSE {"verificationCode"}) |-> c]]

CodeValues ==
  {Undefined, Str("abc"), Str("xyz"), Str(""), Num(7), Num(0), Null}

BGetBodies == {RawText("<html>"), RawText(""), Null} \cup
              {MkCodeObject(c) : c \in CodeValues}

BodyUsedError == [t |-> "error", name |-> "TypeError",
                  message |-> "Body has already been read", status |-> Nothing]

\* main has no try/catch and main() no .catch: a throw inside main rejects
\* the promise main() returned, and nothing handles the rejection
Reject(error) ==
  /\ brejection' = error
  /\ bpc' = "rejected"

B_Start ==
  /\ bpc = "start"
  /\ bgetCount' = bgetCount + 1
  /\ bpc' = "awaitGet"
  /\ UNCHANGED <<bdata, bodyUsed, bparsed, bconsole, bpostCount, bpostBody,
                 brejection, genVars, aVars>>

\* fetch(apiURL) rejects
B_GetRejected ==
  /\ bpc = "awaitGet"
  /\ Reject(NetworkError)
  /\ UNCHANGED <<bdata, bodyUsed, bparsed, bconsole, bgetCount, bpostCount,
                 bpostBody, genVars, aVars>>

\* fetch(apiURL) resolves, whatever the status; data.json() is called and
\* takes the body
B_GetResponse ==
  /\ bpc = "awaitGet"
  /\ \E status \in Statuses, body \in BGetBodies :
       bdata' = [status |-> status, body |-> body]
  /\ bodyUsed' = TRUE
  /\ bpc' = "awaitJson"
  /\ UNCHANGED <<bparsed, bconsole, bgetCount, bpostCount, bpostBody,
                 brejection, genVars, aVars>>

\* the first data.json() rejects
B_JsonRejected ==
  /\ bpc = "awaitJson"
  /\ \E error \in {SyntaxError, BodyReadError} :
       /\ error = SyntaxError => ~Parsable(bdata.body)
       /\ Reject(error)
  /\ UNCHANGED <<bdata, bodyUsed, bparsed, bconsole, bgetCount, bpostCount,
                 bpostBody, genVars, aVars>>

\* the first data.json() resolves and is logged; building the POST's body
\* calls data.json() again
B_JsonLogged ==
  /\ bpc = "awaitJson"
  /\ Parsable(bdata.body)
  /\ bparsed' = bdata.body
  /\ bconsole' = Append(bconsole, LogEntry("log", "", [value |-> bparsed']))
  /\ bpc' = "awaitSecondJson"
  /\ UNCHANGED <<bdata, bodyUsed, bgetCount, bpostCount, bpostBody,
                 brejection, genVars, aVars>>

\* the second data.json() settles: a Response whose body was taken rejects
\* with a TypeError; otherwise .verificationCode is read and the POST sent.
\* Line 17 runs after the POST's fetch resolves.
B_SecondJson ==
  /\ bpc = "awaitSecondJson"
  /\ IF bodyUsed
       THEN Reject(BodyUsedError) /\ UNCHANGED <<bpostCount, bpostBody>>
       ELSE IF PropThrows(bdata.body)
         THEN Reject(PropTypeError) /\ UNCHANGED <<bpostCount, bpostBody>>
         ELSE /\ bpostBody' = JSONstringify(
                    [t |-> "object",
                     props |-> [k \in {"verificationCode"} |->
                                  Prop(bdata.body, "verificationCode")]])
              /\ bpostCount' = bpostCount + 1
              /\ bpc' = "awaitPost"
              /\ UNCHANGED brejection
  /\ UNCHANGED <<bdata, bodyUsed, bparsed, bconsole, bgetCount, genVars, aVars>>

-----------------------------------------------------------------------------
(* Specifications *)

GenIdle ==
  /\ gpc = "idle"
  /\ initialSeed = Undefined
  /\ count = 0
  /\ i = 0
  /\ currentSeed = Undefined
  /\ sequence = <<>>

AFrame(p) ==
  /\ pc = p
  /\ response = Nothing
  /\ data = Nothing
  /\ submitData = Nothing
  /\ submitResponse = Nothing
  /\ responseText = Nothing
  /\ console = <<>>
  /\ getCount = 0
  /\ postCount = 0
  /\ postBody = Nothing

BFrame(p) ==
  /\ bpc = p
  /\ bdata = Nothing
  /\ bodyUsed = FALSE
  /\ bparsed = Nothing
  /\ bconsole = <<>>
  /\ bgetCount = 0
  /\ bpostCount = 0
  /\ bpostBody = Nothing
  /\ brejection = Nothing

GenSeeds ==
  {Num(0), Num(1), Num(0 - 1), Num(2), Num(12345), Num(0 - 12345),
   Num(MaxInt32), Num(MinInt32), Num(1311113528), Num(0 - 1984708585),
   Num(0 - 946486993), Undefined, Null, Str("abc"), Str("7"), Str("-3")}

\* generateSequence called on its own, with any seed and count
InitGen ==
  /\ gpc = "loop"
  /\ initialSeed \in GenSeeds
  /\ count \in 0 .. MaxCount
  /\ i = 0
  /\ currentSeed = initialSeed
  /\ sequence = <<>>
  /\ AFrame("off")
  /\ BFrame("off")

NextGen == GenStep \/ GenReturn

SpecGen == InitGen /\ [][NextGen]_vars

\* node solution-script.js
InitA == GenIdle /\ AFrame("start") /\ BFrame("off")

NextA ==
  \/ A_Start
  \/ A_GetRejected
  \/ A_GetResponse
  \/ A_JsonRejected
  \/ A_JsonParsed
  \/ GenStep
  \/ GenReturn
  \/ A_Submit
  \/ A_PostRejected
  \/ A_PostResponse
  \/ A_TextRejected
  \/ A_TextResolved

SpecA == InitA /\ [][NextA]_vars

\* every pending promise of the run settles
LiveSpecA == SpecA /\ WF_vars(NextA)

\* node TestCode/test.js
InitB == GenIdle /\ AFrame("off") /\ BFrame("start")

NextB ==
  \/ B_Start
  \/ B_GetRejected
  \/ B_GetResponse
  \/ B_JsonRejected
  \/ B_JsonLogged
  \/ B_SecondJson

SpecB == InitB /\ [][NextB]_vars

-----------------------------------------------------------------------------
(* The stepper and the generator: properties checked under SpecGen *)

\* the stepper applied n times to the value v
RECURSIVE Iterate(_, _)
Iterate(v, n) == IF n = 0 THEN v ELSE Num(xorshift32(Iterate(v, n - 1)))

\* C1: generateSequence(s, N) returns a list of length exactly N (empty for
\* N = 0) whose element 0 is xorshift32(s) and whose element k is xorshift32
\* of element k-1: element i is the stepper applied i+1 times to s.
C1_SequenceContract ==
  gpc = "returned" =>
    /\ Len(sequence) = count
    /\ (count = 0 => sequence = <<>>)
    /\ (count > 0 => sequence[1] = xorshift32(initialSeed))
    /\ \A k \in 2 .. count : sequence[k] = xorshift32(Num(sequence[k - 1]))
    /\ \A k \in 1 .. count : Num(sequence[k]) = Iterate(initialSeed, k)

C1_Witness ==
  /\ gpc = "returned"
  /\ count >= 3
  /\ initialSeed = Num(0 - 12345)
  /\ Len(sequence) = count

\* The reference mix of the specification, in wrap-around integer arithmetic:
\* exclusive-or by halving, the left shift as a multiplication modulo 2^32, the
\* arithmetic right shift as the division that rounds down.
RECURSIVE RefXor(_, _)
RefXor(a, b) ==
  IF a = 0 THEN b
  ELSE IF b = 0 THEN a
  ELSE IF a = 0 - 1 THEN (0 - 1) - b
  ELSE IF b = 0 - 1 THEN (0 - 1) - a
  ELSE 2 * RefXor(a \div 2, b \div 2) + (((a % 2) + (b % 2)) % 2)

RefShiftLeft(x, k) ==
  LET m == 2^(WordBits - 1 - k)
      low == (x % m) * 2^k
  IN IF (x \div m) % 2 = 1 THEN (low - 2^(WordBits - 2)) - 2^(WordBits - 2)
     ELSE low

RefShiftRightArithmetic(x, k) == x \div 2^k

RefRound1(s) == RefXor(s, RefShiftLeft(s, Shift1))
RefRound2(s) == RefXor(RefRound1(s), RefShiftRightArithmetic(RefRound1(s), Shift2))
RefRound3(s) == RefXor(RefRound2(s), RefShiftLeft(RefRound2(s), Shift3))

\* the 32-bit input of the k-th stepper call of the run, when it is a 32-bit
\* integer
StepInputs ==
  {k \in 1 .. Len(sequence) : k > 1 \/ initialSeed.t = "number"}

StepInput(k) == IF k = 1 THEN initialSeed.n ELSE sequence[k - 1]

\* C2: on every 32-bit signed seed xorshift32 equals the reference three-round
\* mix (x ^= x << 13, x ^= x >> 17 sign-extending, x ^= x << 5, each wrapped
\* to 32 bits) and its result is within [-2^31, 2^31 - 1].
C2_MatchesReferenceMix ==
  \A k \in StepInputs :
    /\ sequence[k] = RefRound3(StepInput(k))
    /\ sequence[k] >= MinInt32
    /\ sequence[k] <= MaxInt32

\* a stepper call whose second round shifts a negative value
C2_Witness ==
  \E k \in StepInputs :
    /\ StepInput(k) < 0
    /\ RefRound1(StepInput(k)) < 0
    /\ sequence[k] = xorshift32(Num(StepInput(k)))

\* C9 as stated: no element of generateSequence(s, N) equals the seed s.
C9_SeedNeverInOutput ==
  (gpc = "returned" /\ initialSeed.t = "number") =>
    \A k \in 1 .. Len(sequence) : sequence[k] # initialSeed.n

\* the seeds the stepper maps to themselves, and the seeds of its 2-cycle
FixedPoints == {0, 1311113528}
TwoCycle == {0 - 1984708585, 0 - 946486993}

\* C9 as amended: the seed is not an element of the output unless it is one
\* of the stepper's four periodic points; a fixed point comes back as element
\* 0 and a point of the 2-cycle as element 1.
C9_SeedOnlyWhenPeriodic ==
  (gpc = "returned" /\ initialSeed.t = "number") =>
    /\ initialSeed.n \notin (FixedPoints \cup TwoCycle) =>
         \A k \in 1 .. Len(sequence) : sequence[k] # initialSeed.n
    /\ (initialSeed.n \in FixedPoints /\ count >= 1) =>
         sequence[1] = initialSeed.n
    /\ (initialSeed.n \in TwoCycle /\ count >= 2) =>
         (sequence[1] # initialSeed.n /\ sequence[2] = initialSeed.n)

C9_Witness ==
  /\ gpc = "returned"
  /\ count = MaxCount
  /\ initialSeed = Num(12345)
  /\ \A k \in 1 .. Len(sequence) : sequence[k] # 12345

-----------------------------------------------------------------------------
(* Script A: properties checked under SpecA and LiveSpecA *)

GetSucceeded ==
  /\ response # Nothing
  /\ Ok(response.status)
  /\ Parsable(response.body)
  /\ data = response.body

GenerationStarted == gpc # "idle" \/ i > 0

\* C3: generation starts only after the GET completed with a 2xx status and
\* its JSON body was parsed; the POST is sent only after all 128 elements are
\* generated; no POST in a run whose GET failed, was non-2xx or unparsable.
C3_PhasesOrdered ==
  /\ GenerationStarted => (getCount = 1 /\ GetSucceeded)
  /\ postCount > 0 =>
       (GetSucceeded /\ gpc = "idle" /\ i = SequenceLength
          /\ Len(sequence) = SequenceLength)
  /\ ~GetSucceeded => (postCount = 0 /\ postBody = Nothing)

C3_Witness ==
  /\ pc = "awaitPost"
  /\ postCount = 1
  /\ Len(sequence) = SequenceLength
  /\ GetSucceeded

\* C4: the POST's body has uid equal to the uid the GET delivered and
\* generated equal to generateSequence(initialSeed of the GET, 128): exactly
\* 128 32-bit integers in generator order.
C4_PostBody ==
  postCount > 0 =>
    /\ DOMAIN postBody.props =
         {"generated"} \cup ({"uid"} \cap DOMAIN response.body.props)
    /\ Prop(postBody, "uid") = Prop(response.body, "uid")
    /\ LET generated == postBody.props["generated"]
       IN /\ generated.t = "array"
          /\ Len(generated.items) = SequenceLength
          /\ \A k \in 1 .. SequenceLength :
               /\ Num(generated.items[k]) =
                    Num(xorshift32(IF k = 1 THEN Prop(response.body, "initialSeed")
                                   ELSE Num(generated.items[k - 1])))
               /\ generated.items[k] >= MinInt32
               /\ generated.items[k] <= MaxInt32

C4_Witness ==
  /\ postCount = 1
  /\ Prop(response.body, "uid") = Str("u1")
  /\ Prop(response.body, "initialSeed") = Num(0 - 1)
  /\ Prop(postBody, "uid") = Str("u1")

ErrorEntries == {k \in 1 .. Len(console) : console[k].level = "error"}

CarriesStatus(e, status) ==
  \/ "status" \in DOMAIN e.args /\ e.args.status = Num(status)
  \/ "error" \in DOMAIN e.args /\ e.args.error.status = Num(status)

CarriesBody(e, body) == "body" \in DOMAIN e.args /\ e.args.body = body

GetNon2xx == pc = "done" /\ response # Nothing /\ ~Ok(response.status)

PostNon2xx ==
  pc = "done" /\ submitResponse # Nothing /\ ~Ok(submitResponse.status)

\* C5 as stated: a non-2xx status on the GET or on the POST is logged as an
\* error that carries both the status code and the response body.
C5_Non2xxLoggedWithStatusAndBody ==
  /\ GetNon2xx =>
       \E k \in ErrorEntries :
         /\ CarriesStatus(console[k], response.status)
         /\ CarriesBody(console[k], response.body)
  /\ PostNon2xx =>
       \E k \in ErrorEntries :
         /\ CarriesStatus(console[k], submitResponse.status)
         /\ CarriesBody(console[k], submitResponse.body)

\* C5 as amended: a non-2xx GET is logged as an error that carries the status
\* code and not the body, which is never read; a non-2xx POST whose body text
\* was read is logged as an error that carries the status code and the body.
C5_Non2xxLogged ==
  /\ GetNon2xx =>
       /\ \E k \in ErrorEntries : CarriesStatus(console[k], response.status)
       /\ \A k \in 1 .. Len(console) : ~CarriesBody(console[k], response.body)
  /\ (PostNon2xx /\ responseText # Nothing) =>
       \E k \in ErrorEntries :
         /\ CarriesStatus(console[k], submitResponse.status)
         /\ CarriesBody(console[k], submitResponse.body)

C5_Witness ==
  /\ GetNon2xx
  /\ response.status = 404
  /\ Len(console) = 2
  /\ console[2].level = "error"

\* C8: Script A issues at most one GET and at most one POST in every run,
\* failure paths included, and every run terminates, after the success log,
\* the error log of a non-2xx POST or the log of the catch block.
C8_NoRetryAndTerminates ==
  /\ [](getCount <= 1 /\ postCount <= 1)
  /\ [](pc = "done" =>
         console[Len(console)].text \in
           {"Success!", "Success! Raw response:", "Error", "Error:"})
  /\ <>(pc = "done")

\* a run that failed after its POST and ended
C8_Witness ==
  /\ pc = "done"
  /\ getCount = 1
  /\ postCount = 1
  /\ console[Len(console)].level = "error"

\* an initialSeed member that `| 0` turns into 0
CoercesToZero(v) == v \in {Num(0), Undefined, Str("abc")}

-----------------------------------------------------------------------------
(* Script B: properties checked under SpecB *)

\* C6 as stated: every failure is caught at the top level, logged and
\* swallowed: no run ends with an uncaught error or unhandled rejection.
C6_NoUnhandledRejection ==
  /\ bpc # "rejected"
  /\ brejection = Nothing

\* the GET succeeded with a JSON body that has a verificationCode, and the run
\* has ended
CodeReceived ==
  /\ bpc \in {"rejected", "done"}
  /\ bparsed # Nothing
  /\ bparsed.t = "object"
  /\ "verificationCode" \in DOMAIN bparsed.props

\* C7 as stated: after a GET whose JSON body has a verificationCode the script
\* sends the POST { verificationCode: <that value> }.
C7_PostSentWithCode ==
  CodeReceived =>
    /\ bpostCount = 1
    /\ bpostBody # Nothing
    /\ Prop(bpostBody, "verificationCode") = bparsed.props["verificationCode"]

====
